---- MODULE Spec2Model ----
(***************************************************************************)
(* Validation gate of the netbox_access_lists forms                        *)
(* (src/netbox_access_lists/forms.py): AccessListForm.clean,               *)
(* ACLStandardRuleForm.clean and ACLExtendedRuleForm.clean, together with  *)
(* the AccessList table the first of them queries.                         *)
(*                                                                         *)
(* A request is handled in two steps: the form is bound and clean() runs   *)
(* (the Submit... actions), then the host either saves the object or       *)
(* answers without saving (Save, Respond).  The rule tables are written    *)
(* only by the host and read by no validator; they are not part of the     *)
(* state.                                                                  *)
(***************************************************************************)
EXTENDS Integers, Sequences, FiniteSets

VARIABLES acls, pc, form, instance, errors, changed_data, cleaned_data, result

vars == <<acls, pc, form, instance, errors, changed_data, cleaned_data, result>>

(* ------------------------------ bounds -------------------------------- *)

\* largest number of AccessList rows the table holds
MaxAcls == 2

(* ------------------------------ domains ------------------------------- *)

Devices == {"D1", "D2"}

\* Python None, for an optional reference or choice left out
None == "<None>"

\* names are character sequences; "Ei" and "ei" differ only by case
Names == { <<"E", "i">>, <<"e", "i">>, <<"e", "o">> }

\* a blank name, which the required name field refuses
Blank == << >>

ACLTypeChoices == {"standard", "extended"}

Remarks == {"", "allow mgmt"}

ACLActionChoices == {"", "permit"}

ACLProtocolChoices == {"", "tcp"}

Prefixes == {None, "10.0.0.0/8"}

Ports == { << >>, <<80>> }

AclIds == 1..MaxAcls

\* pk of an unsaved instance (a create form)
NoInstance == 0

(* -------------------------- string comparison ------------------------- *)

LowerChar(c) ==
    CASE c = "E" -> "e"
      [] c = "I" -> "i"
      [] c = "O" -> "o"
      [] OTHER  -> c

Lower(s) == [i \in 1..Len(s) |-> LowerChar(s[i])]

\* the name__iexact lookup
IExact(a, b) == Lower(a) = Lower(b)

\* Python truth value of a cleaned string, choice or reference
Truthy(v) == v # "" /\ v # None

\* Python truth value of a cleaned list
TruthyList(v) == Len(v) > 0

(* ------------------------------ results ------------------------------- *)

NoData == [none |-> TRUE]

Return(data) ==
    [error |-> "none", field |-> "", message |-> "", cleaned_data |-> data]

Raise(kind, fld, msg) ==
    [error |-> kind, field |-> fld, message |-> msg, cleaned_data |-> NoData]

NoResult == Return(NoData)

(* --------------------------- AccessListForm --------------------------- *)

\* the lookup with name= in place of name__iexact=
AccessListFilter_exact(store, name, device) ==
    {a \in store : a.name = name /\ a.device = device}

\* the lookup without device=
AccessListFilter_anyDevice(store, name, device) ==
    {a \in store : IExact(a.name, name)}

\* AccessList.objects.filter(name__iexact=name, device=device)
AccessListFilter(store, name, device) ==
    {a \in store : IExact(a.name, name) /\ a.device = device}

\* clean() that queries whatever changed_data holds
AccessListForm_clean_alwaysCheck(self, store) ==
    IF "name" \in self.errors
    THEN Return(self.cleaned_data)
    ELSE IF AccessListFilter(store, self.cleaned_data.name,
                             self.cleaned_data.device) # {}
         THEN Raise("DuplicateName", "name",
                    "An ACL with this name (case insensitive) is already associated to this device.")
         ELSE Return(self.cleaned_data)

\* clean() that normalises the name it returns
AccessListForm_clean_lowered(self, store) ==
    IF "name" \in self.errors
    THEN Return(self.cleaned_data)
    ELSE IF /\ ("name" \in self.changed_data \/ "device" \in self.changed_data)
            /\ AccessListFilter(store, self.cleaned_data.name,
                                self.cleaned_data.device) # {}
         THEN Raise("DuplicateName", "name",
                    "An ACL with this name (case insensitive) is already associated to this device.")
         ELSE Return([self.cleaned_data EXCEPT !.name = Lower(@)])

AccessListForm_clean(self, store) ==
    IF "name" \in self.errors
    THEN Return(self.cleaned_data)
    ELSE LET name   == self.cleaned_data.name
             device == self.cleaned_data.device
         IN IF /\ ("name" \in self.changed_data \/ "device" \in self.changed_data)
               /\ AccessListFilter(store, name, device) # {}
            THEN Raise("DuplicateName", "name",
                       "An ACL with this name (case insensitive) is already associated to this device.")
            ELSE Return(self.cleaned_data)

\* the values the form starts from: the edited row, or nothing on create
Initial(store, inst) ==
    IF inst = NoInstance
    THEN [name |-> Blank, device |-> None, type |-> ""]
    ELSE LET a == CHOOSE x \in store : x.id = inst
         IN [name |-> a.name, device |-> a.device, type |-> a.type]

ChangedData(initial, data) ==
    {f \in {"name", "device", "type"} : data[f] # initial[f]}

\* errors of the required fields name and device, found before clean()
FieldErrors(data) ==
    {f \in {"name"} : data.name = Blank} \cup {f \in {"device"} : data.device = None}

(* ------------------------- ACLStandardRuleForm ------------------------ *)

\* queryset of the access_list field: the type is a query parameter of
\* the selection widget only
ACLStandardRuleForm_access_list(store) == store

\* clean() without the source_prefix test
ACLStandardRuleForm_clean_noPrefix(data) ==
    IF Truthy(data.remark) /\ Truthy(data.action)
    THEN Raise("MutuallyExclusiveFields", "action",
               "Cannot input a remark AND an action. Remove one.")
    ELSE Return(data)

\* clean() that also refuses a rule with no remark and no logic field
ACLStandardRuleForm_clean_requireOne(data) ==
    IF Truthy(data.remark)
    THEN IF Truthy(data.action)
         THEN Raise("MutuallyExclusiveFields", "action",
                    "Cannot input a remark AND an action. Remove one.")
         ELSE IF Truthy(data.source_prefix)
         THEN Raise("MutuallyExclusiveFields", "source_prefix",
                    "Cannot input a remark AND a source prefix. Remove one.")
         ELSE Return(data)
    ELSE IF ~Truthy(data.action) /\ ~Truthy(data.source_prefix)
         THEN Raise("MutuallyExclusiveFields", "remark",
                    "A rule needs a remark or an action.")
         ELSE Return(data)

ACLStandardRuleForm_clean(data) ==
    IF Truthy(data.remark)
    THEN IF Truthy(data.action)
         THEN Raise("MutuallyExclusiveFields", "action",
                    "Cannot input a remark AND an action. Remove one.")
         ELSE IF Truthy(data.source_prefix)
         THEN Raise("MutuallyExclusiveFields", "source_prefix",
                    "Cannot input a remark AND a source prefix. Remove one.")
         ELSE Return(data)
    ELSE Return(data)

(* ------------------------- ACLExtendedRuleForm ------------------------ *)

ACLExtendedRuleForm_access_list(store) == store

\* clean() without the protocol test
ACLExtendedRuleForm_clean_noProtocol(data) ==
    IF Truthy(data.remark)
    THEN IF Truthy(data.action)
         THEN Raise("MutuallyExclusiveFields", "action",
                    "Cannot input a remark AND an action. Remove one.")
         ELSE IF Truthy(data.source_prefix)
         THEN Raise("MutuallyExclusiveFields", "source_prefix",
                    "Cannot input a remark AND a source prefix. Remove one.")
         ELSE IF TruthyList(data.source_ports)
         THEN Raise("MutuallyExclusiveFields", "source_ports",
                    "Cannot input a remark AND source ports. Remove one.")
         ELSE IF Truthy(data.destination_prefix)
         THEN Raise("MutuallyExclusiveFields", "destination_prefix",
                    "Cannot input a remark AND a destination prefix. Remove one.")
         ELSE IF TruthyList(data.destination_ports)
         THEN Raise("MutuallyExclusiveFields", "destination_ports",
                    "Cannot input a remark AND destination ports. Remove one.")
         ELSE Return(data)
    ELSE Return(data)

\* clean() that tests protocol first
ACLExtendedRuleForm_clean_protocolFirst(data) ==
    IF Truthy(data.remark)
    THEN IF Truthy(data.protocol)
         THEN Raise("MutuallyExclusiveFields", "protocol",
                    "Cannot input a remark AND a protocol. Remove one.")
         ELSE IF Truthy(data.action)
         THEN Raise("MutuallyExclusiveFields", "action",
                    "Cannot input a remark AND an action. Remove one.")
         ELSE IF Truthy(data.source_prefix)
         THEN Raise("MutuallyExclusiveFields", "source_prefix",
                    "Cannot input a remark AND a source prefix. Remove one.")
         ELSE IF TruthyList(data.source_ports)
         THEN Raise("MutuallyExclusiveFields", "source_ports",
                    "Cannot input a remark AND source ports. Remove one.")
         ELSE IF Truthy(data.destination_prefix)
         THEN Raise("MutuallyExclusiveFields", "destination_prefix",
                    "Cannot input a remark AND a destination prefix. Remove one.")
         ELSE IF TruthyList(data.destination_ports)
         THEN Raise("MutuallyExclusiveFields", "destination_ports",
                    "Cannot input a remark AND destination ports. Remove one.")
         ELSE Return(data)
    ELSE Return(data)

ACLExtendedRuleForm_clean(data) ==
    IF Truthy(data.remark)
    THEN IF Truthy(data.action)
         THEN Raise("MutuallyExclusiveFields", "action",
                    "Cannot input a remark AND an action. Remove one.")
         ELSE IF Truthy(data.source_prefix)
         THEN Raise("MutuallyExclusiveFields", "source_prefix",
                    "Cannot input a remark AND a source prefix. Remove one.")
         ELSE IF TruthyList(data.source_ports)
         THEN Raise("MutuallyExclusiveFields", "source_ports",
                    "Cannot input a remark AND source ports. Remove one.")
         ELSE IF Truthy(data.destination_prefix)
         THEN Raise("MutuallyExclusiveFields", "destination_prefix",
                    "Cannot input a remark AND a destination prefix. Remove one.")
         ELSE IF TruthyList(data.destination_ports)
         THEN Raise("MutuallyExclusiveFields", "destination_ports",
                    "Cannot input a remark AND destination ports. Remove one.")
         ELSE IF Truthy(data.protocol)
         THEN Raise("MutuallyExclusiveFields", "protocol",
                    "Cannot input a remark AND a protocol. Remove one.")
         ELSE Return(data)
    ELSE Return(data)

(* ------------------------------- states ------------------------------- *)

Idle ==
    /\ pc = "idle"
    /\ form = "none"
    /\ instance = NoInstance
    /\ errors = {}
    /\ changed_data = {}
    /\ cleaned_data = NoData
    /\ result = NoResult

Init ==
    /\ acls = {}
    /\ Idle

AclFields == [device : Devices, name : Names, type : ACLTypeChoices]

\* every content of the AccessList table with at most one row per id
AclTables ==
    UNION { { { [id |-> i, device |-> f[i].device, name |-> f[i].name,
                 type |-> f[i].type] : i \in I } : f \in [I -> AclFields] }
            : I \in SUBSET AclIds }

\* any content of the AccessList table: rows are also written by callers
\* that do not go through AccessListForm
InitAny ==
    /\ acls \in AclTables
    /\ Idle

(* ------------------------------- actions ------------------------------ *)

\* an AccessListForm is bound to a new or an existing row and cleaned
SubmitAccessList ==
    /\ pc = "idle"
    /\ \E inst \in {NoInstance} \cup {a.id : a \in acls},
          name \in Names \cup {Blank},
          device \in Devices \cup {None},
          type \in ACLTypeChoices :
          LET data == [name |-> name, device |-> device, type |-> type]
              self == [errors       |-> FieldErrors(data),
                       changed_data |-> ChangedData(Initial(acls, inst), data),
                       cleaned_data |-> data]
          IN /\ form' = "AccessListForm"
             /\ instance' = inst
             /\ errors' = self.errors
             /\ changed_data' = self.changed_data
             /\ cleaned_data' = data
             /\ result' = AccessListForm_clean(self, acls)
    /\ pc' = "cleaned"
    /\ UNCHANGED acls

SubmitStandardRule ==
    /\ pc = "idle"
    /\ \E al \in ACLStandardRuleForm_access_list(acls),
          remark \in Remarks,
          action \in ACLActionChoices,
          source_prefix \in Prefixes :
          LET data == [access_list |-> al.id, remark |-> remark,
                       action |-> action, source_prefix |-> source_prefix]
          IN /\ form' = "ACLStandardRuleForm"
             /\ cleaned_data' = data
             /\ result' = ACLStandardRuleForm_clean(data)
    /\ instance' = NoInstance
    /\ errors' = {}
    /\ changed_data' = {}
    /\ pc' = "cleaned"
    /\ UNCHANGED acls

SubmitExtendedRule ==
    /\ pc = "idle"
    /\ \E al \in ACLExtendedRuleForm_access_list(acls),
          remark \in Remarks,
          action \in ACLActionChoices,
          source_prefix \in Prefixes,
          source_ports \in Ports,
          destination_prefix \in Prefixes,
          destination_ports \in Ports,
          protocol \in ACLProtocolChoices :
          LET data == [access_list |-> al.id, remark |-> remark,
                       action |-> action, source_prefix |-> source_prefix,
                       source_ports |-> source_ports,
                       destination_prefix |-> destination_prefix,
                       destination_ports |-> destination_ports,
                       protocol |-> protocol]
          IN /\ form' = "ACLExtendedRuleForm"
             /\ cleaned_data' = data
             /\ result' = ACLExtendedRuleForm_clean(data)
    /\ instance' = NoInstance
    /\ errors' = {}
    /\ changed_data' = {}
    /\ pc' = "cleaned"
    /\ UNCHANGED acls

\* form.is_valid(): no field error and clean() did not raise
IsValid == errors = {} /\ result.error = "none"

FreeIds == AclIds \ {a.id : a \in acls}

ToIdle ==
    /\ pc' = "idle"
    /\ form' = "none"
    /\ instance' = NoInstance
    /\ errors' = {}
    /\ changed_data' = {}
    /\ cleaned_data' = NoData
    /\ result' = NoResult

\* the host saves a valid AccessListForm
Save ==
    /\ pc = "cleaned"
    /\ form = "AccessListForm"
    /\ IsValid
    /\ LET d == result.cleaned_data
       IN IF instance = NoInstance
          THEN /\ FreeIds # {}
               /\ LET new == CHOOSE i \in FreeIds : \A j \in FreeIds : i <= j
                  IN acls' = acls \cup {[id |-> new, device |-> d.device,
                                         name |-> d.name, type |-> d.type]}
          ELSE acls' = {a \in acls : a.id # instance}
                         \cup {[id |-> instance, device |-> d.device,
                                name |-> d.name, type |-> d.type]}
    /\ ToIdle

\* the host answers without touching the AccessList table: an invalid
\* form is shown again, a valid rule form is handed to the rule tables
Respond ==
    /\ pc = "cleaned"
    /\ \/ ~IsValid
       \/ form # "AccessListForm"
       \/ instance = NoInstance /\ FreeIds = {}
    /\ ToIdle
    /\ UNCHANGED acls

Next ==
    \/ SubmitAccessList
    \/ SubmitStandardRule
    \/ SubmitExtendedRule
    \/ Save
    \/ Respond

Spec == Init /\ [][Next]_vars

SpecAny == InitAny /\ [][Next]_vars

(* ----------------------------- properties ----------------------------- *)

Cleaned(f) == pc = "cleaned" /\ form = f

Accepted == result.error = "none"

Row(i) == CHOOSE a \in acls : a.id = i

StdOrder == <<"action", "source_prefix">>

ExtOrder == <<"action", "source_prefix", "source_ports",
              "destination_prefix", "destination_ports", "protocol">>

Populated(data, f) ==
    IF f \in {"source_ports", "destination_ports"}
    THEN data[f] # << >>
    ELSE data[f] # "" /\ data[f] # None

HasRemark(data) == data.remark # ""

HasLogic(order, data) == \E i \in 1..Len(order) : Populated(data, order[i])

FirstPopulated(order, data) ==
    LET i == CHOOSE k \in 1..Len(order) :
                 /\ Populated(data, order[k])
                 /\ \A j \in 1..(k - 1) : ~Populated(data, order[j])
    IN order[i]

OrderOf(f) == IF f = "ACLStandardRuleForm" THEN StdOrder ELSE ExtOrder

RuleForms == {"ACLStandardRuleForm", "ACLExtendedRuleForm"}

\* C1: starting from an empty table, with rows saved only from valid
\* AccessListForm submissions, no device holds two distinct AccessLists
\* whose names are equal when case is ignored.
C1_UniqueNamePerDevice ==
    \A a, b \in acls :
        (a.id # b.id /\ a.device = b.device) => Lower(a.name) # Lower(b.name)

\* C1 witness: one device holds two AccessLists, and an edit that would
\* have given one of them the other's name in another case was refused.
C1_Witness ==
    /\ Cleaned("AccessListForm")
    /\ instance # NoInstance
    /\ result.error = "DuplicateName"
    /\ \E a, b \in acls : /\ a.id = instance
                          /\ b.id # instance
                          /\ a.device = b.device
                          /\ cleaned_data.device = b.device
                          /\ cleaned_data.name # b.name
                          /\ Lower(cleaned_data.name) = Lower(b.name)

\* C2: creating an AccessList on device D whose name differs only by case
\* from one D already holds fails with DuplicateName; creating one with a
\* name held by another device, on a device that has no such name, succeeds.
C2_CreateDuplicate ==
    (Cleaned("AccessListForm") /\ instance = NoInstance) =>
        /\ (\E a \in acls : /\ a.device = cleaned_data.device
                            /\ a.name # cleaned_data.name
                            /\ Lower(a.name) = Lower(cleaned_data.name))
              => result.error = "DuplicateName"
        /\ ( /\ cleaned_data.device \in Devices
             /\ \E a \in acls : /\ a.name = cleaned_data.name
                                /\ a.device # cleaned_data.device
             /\ ~ \E b \in acls : /\ b.device = cleaned_data.device
                                  /\ Lower(b.name) = Lower(cleaned_data.name) )
              => (Accepted /\ errors = {})

\* C2 witness: the same name is held by both devices (the second create
\* succeeded) and a create differing by case only has been refused.
C2_Witness ==
    /\ Cleaned("AccessListForm")
    /\ instance = NoInstance
    /\ result.error = "DuplicateName"
    /\ \E a, b \in acls : /\ a.device # b.device
                          /\ a.name = b.name
                          /\ a.device = cleaned_data.device
                          /\ a.name # cleaned_data.name
                          /\ Lower(a.name) = Lower(cleaned_data.name)

\* C3: an edit that changes name or device fails with DuplicateName only
\* if a row other than the edited one has the same device and a name
\* equal when case is ignored; the edited row never conflicts with itself.
C3_SelfNeverConflicts ==
    ( /\ Cleaned("AccessListForm")
      /\ instance # NoInstance
      /\ ("name" \in changed_data \/ "device" \in changed_data)
      /\ result.error = "DuplicateName" )
        => \E a \in acls : /\ a.id # instance
                           /\ a.device = cleaned_data.device
                           /\ Lower(a.name) = Lower(cleaned_data.name)

\* C4: ACLStandardRuleForm.clean rejects a submission if and only if the
\* remark is non-empty and action or source_prefix is populated.
C4_StandardRejectsIff ==
    Cleaned("ACLStandardRuleForm") =>
        /\ result.error \in {"none", "MutuallyExclusiveFields"}
        /\ result.error = "MutuallyExclusiveFields"
              <=> (HasRemark(cleaned_data) /\ HasLogic(StdOrder, cleaned_data))

\* C4 witness: a remark with a source_prefix and no action was refused.
C4_Witness ==
    /\ Cleaned("ACLStandardRuleForm")
    /\ HasRemark(cleaned_data)
    /\ cleaned_data.action = ""
    /\ cleaned_data.source_prefix # None
    /\ result.error = "MutuallyExclusiveFields"

\* C5: ACLExtendedRuleForm.clean rejects a submission if and only if the
\* remark is non-empty and at least one of the six logic fields is
\* populated.
C5_ExtendedRejectsIff ==
    Cleaned("ACLExtendedRuleForm") =>
        /\ result.error \in {"none", "MutuallyExclusiveFields"}
        /\ result.error = "MutuallyExclusiveFields"
              <=> (HasRemark(cleaned_data) /\ HasLogic(ExtOrder, cleaned_data))

\* C5 witness: a remark with a protocol and no other logic field was
\* refused.
C5_Witness ==
    /\ Cleaned("ACLExtendedRuleForm")
    /\ HasRemark(cleaned_data)
    /\ cleaned_data.protocol # ""
    /\ \A i \in 1..5 : ~Populated(cleaned_data, ExtOrder[i])
    /\ result.error = "MutuallyExclusiveFields"

\* C6: the MutuallyExclusiveFields error of a rule form names the first
\* populated logic field in the fixed order of the tests, whatever later
\* fields are populated.
C6_FirstConflictReported ==
    (pc = "cleaned" /\ form \in RuleForms
        /\ result.error = "MutuallyExclusiveFields")
        => /\ HasLogic(OrderOf(form), cleaned_data)
           /\ result.field = FirstPopulated(OrderOf(form), cleaned_data)

\* C6 witness: a remark with action and protocol reported action.
C6_Witness ==
    /\ Cleaned("ACLExtendedRuleForm")
    /\ HasRemark(cleaned_data)
    /\ cleaned_data.action # ""
    /\ cleaned_data.protocol # ""
    /\ result.field = "action"

\* C7: a rule accepted by ACLStandardRuleForm references an AccessList of
\* type "standard", one accepted by ACLExtendedRuleForm an AccessList of
\* type "extended".
C7_RuleTypeMatches ==
    (pc = "cleaned" /\ form \in RuleForms /\ Accepted) =>
        Row(cleaned_data.access_list).type =
            (IF form = "ACLStandardRuleForm" THEN "standard" ELSE "extended")

\* C8 as stated: an accepted rule has exactly one of a non-empty remark
\* and a populated logic field.
C8_AcceptedIsXor ==
    (pc = "cleaned" /\ form \in RuleForms /\ Accepted) =>
        (HasRemark(cleaned_data) # HasLogic(OrderOf(form), cleaned_data))

\* C8 amended: an accepted rule never has both a non-empty remark and a
\* populated logic field, and a rule with neither is accepted.
C8_AcceptedNotBoth ==
    (pc = "cleaned" /\ form \in RuleForms) =>
        /\ Accepted =>
              ~(HasRemark(cleaned_data) /\ HasLogic(OrderOf(form), cleaned_data))
        /\ (~HasRemark(cleaned_data) /\ ~HasLogic(OrderOf(form), cleaned_data))
              => Accepted

\* C8 witness: a standard rule with no remark and no logic field was
\* accepted.
C8_Witness ==
    /\ Cleaned("ACLStandardRuleForm")
    /\ ~HasRemark(cleaned_data)
    /\ ~HasLogic(StdOrder, cleaned_data)
    /\ Accepted

\* C9: a submission that changes neither name nor device is accepted by
\* AccessListForm.clean whatever the table holds.
C9_UnchangedAccepted ==
    ( /\ Cleaned("AccessListForm")
      /\ "name" \notin changed_data
      /\ "device" \notin changed_data ) => Accepted

\* C9 witness: an edit that changes neither was accepted although another
\* row has the same device and a name equal when case is ignored.
C9_Witness ==
    /\ Cleaned("AccessListForm")
    /\ instance # NoInstance
    /\ "name" \notin changed_data
    /\ "device" \notin changed_data
    /\ Accepted
    /\ \E a \in acls : /\ a.id # instance
                       /\ a.device = cleaned_data.device
                       /\ Lower(a.name) = Lower(cleaned_data.name)

\* C10: a validator call leaves the AccessList table as it was, and the
\* data it returns on acceptance are the data submitted.
C10_ValidatorsPure ==
    [][ (pc = "idle" /\ pc' = "cleaned") =>
            /\ acls' = acls
            /\ (result'.error = "none" => result'.cleaned_data = cleaned_data')
      ]_vars

\* C10 witness: an edit that renames a row to a mixed-case name was
\* accepted while the table was not empty.
C10_Witness ==
    /\ Cleaned("AccessListForm")
    /\ instance # NoInstance
    /\ "name" \in changed_data
    /\ cleaned_data.name # Lower(cleaned_data.name)
    /\ Accepted

====
